---- MODULE Spec2Model ----
(***************************************************************************)
(* Model of the MANA/USD 15-minute candle API: the candle fetch and        *)
(* normalisation pipeline (utils.fetch_candles, utils.process_candle_data),*)
(* the trend heuristic (utils.detect_trend) and the two HTTP handlers that *)
(* drive them (main.get_candles, main.get_trend_analysis).                 *)
(*                                                                         *)
(* Numbers.  A float is a record [k, v]: k = "num" is the finite value v   *)
(* (closes are small integers, so every quantity the code derives from     *)
(* them is an exact rational and is computed exactly), k = "inf" is the    *)
(* infinity of sign v, k = "nan" is NaN.  A JSON field is a record [k, v]  *)
(* with k in "num" (JSON number), "numstr" (string holding a number, the   *)
(* form the exchange uses for prices), "inf" (the Infinity literal that    *)
(* json.loads accepts), "str" (any other string) and "null".               *)
(***************************************************************************)
EXTENDS Integers, Sequences, FiniteSets, TLC

VARIABLES req, upstream, fetched, calls, resp, tCandles, tPeriods, tResult

vars == <<req, upstream, fetched, calls, resp, tCandles, tPeriods, tResult>>

(* ----------------------------- bounds ---------------------------------- *)
MaxRows == 2
MaxCandles == 3

(* ------------------------- program constants --------------------------- *)
NumColumns == 12
TZOffsetMs == 19800000
MinPeriods == 2
MaxPeriods == 50
MaxUpConfidence == 95
MinSidewaysConfidence == 30
BaseSidewaysConfidence == 70

(* ------------------------------ values --------------------------------- *)
Num(n) == [k |-> "num", v |-> n]
NumStr(n) == [k |-> "numstr", v |-> n]
Inf(s) == [k |-> "inf", v |-> s]
NaN == [k |-> "nan", v |-> 0]
Str == [k |-> "str", v |-> 0]
Null == [k |-> "null", v |-> 0]

IsFinite(x) == x.k = "num"
IsNaN(x) == x.k = "nan"

Abs(n) == IF n < 0 THEN -n ELSE n
Sign(n) == IF n < 0 THEN -1 ELSE IF n > 0 THEN 1 ELSE 0
Min2(a, b) == IF a < b THEN a ELSE b
Max2(a, b) == IF a > b THEN a ELSE b

RECURSIVE SeqMax(_)
SeqMax(s) == IF s = <<>> THEN 0 ELSE Max2(Head(s), SeqMax(Tail(s)))

(* ------------------------ process_candle_data -------------------------- *)
(* pd.DataFrame(raw_data, columns=columns): the rows are padded with None  *)
(* to the length of the longest one, and that length must equal the number *)
(* of column names, otherwise the constructor raises.                      *)
FrameWidth(raw) == SeqMax([i \in 1..Len(raw) |-> Len(raw[i])])

Cell(raw, i, p) == IF p + 1 <= Len(raw[i]) THEN raw[i][p + 1] ELSE Null

(* Variant: a value that does not parse is coerced to zero. *)
to_numeric_zero(f) ==
    CASE f.k = "num" -> Num(f.v)
      [] f.k = "numstr" -> Num(f.v)
      [] f.k = "inf" -> Inf(f.v)
      [] OTHER -> Num(0)

(* pd.to_numeric(col, errors='coerce') on one cell. *)
to_numeric(f) ==
    CASE f.k = "num" -> Num(f.v)
      [] f.k = "numstr" -> Num(f.v)
      [] f.k = "inf" -> Inf(f.v)
      [] OTHER -> NaN

(* pd.to_datetime(col, unit="ms") succeeds on a cell holding an integer. *)
IsEpochMs(f) == f.k = "num"

(* (to_datetime(ms) + Timedelta(hours=5, minutes=30)).strftime(            *)
(* "%Y-%m-%d %H:%M:%S") + " LKT": the shifted wall clock, cut to whole     *)
(* seconds; day counts the days since 1970-01-01.                          *)
FormatOpenTime_utc(ms) ==
    LET secs == ms \div 1000
    IN [day |-> secs \div 86400,
        hh |-> (secs % 86400) \div 3600,
        mm |-> (secs % 3600) \div 60,
        ss |-> secs % 60,
        zone |-> "LKT"]

FormatOpenTime(ms) ==
    LET secs == (ms + TZOffsetMs) \div 1000
    IN [day |-> secs \div 86400,
        hh |-> (secs % 86400) \div 3600,
        mm |-> (secs % 3600) \div 60,
        ss |-> secs % 60,
        zone |-> "LKT"]

Failure(kind, msg) == [ok |-> FALSE, candles |-> <<>>, error |-> kind, msg |-> msg]
Success(cs) == [ok |-> TRUE, candles |-> cs, error |-> "none", msg |-> "none"]

(* Variant: the High and Low columns are taken from each other's index. *)
CandleOfRow_swapped(raw, i) ==
    [Open_time |-> FormatOpenTime(Cell(raw, i, 0).v),
     Open |-> to_numeric(Cell(raw, i, 1)),
     High |-> to_numeric(Cell(raw, i, 3)),
     Low |-> to_numeric(Cell(raw, i, 2)),
     Close |-> to_numeric(Cell(raw, i, 4)),
     Volume |-> to_numeric(Cell(raw, i, 5))]

CandleOfRow(raw, i) ==
    [Open_time |-> FormatOpenTime(Cell(raw, i, 0).v),
     Open |-> to_numeric(Cell(raw, i, 1)),
     High |-> to_numeric(Cell(raw, i, 2)),
     Low |-> to_numeric(Cell(raw, i, 3)),
     Close |-> to_numeric(Cell(raw, i, 4)),
     Volume |-> to_numeric(Cell(raw, i, 5))]

(* Variant: the isna() check after the numeric conversion is missing. *)
process_candle_data_unchecked(raw) ==
    IF raw # <<>> /\ FrameWidth(raw) # NumColumns
    THEN Failure("ValueError", "process")
    ELSE IF \E i \in 1..Len(raw) : ~IsEpochMs(Cell(raw, i, 0))
    THEN Failure("ValueError", "process")
    ELSE Success([i \in 1..Len(raw) |-> CandleOfRow(raw, i)])

process_candle_data(raw) ==
    IF raw # <<>> /\ FrameWidth(raw) # NumColumns
    THEN Failure("ValueError", "process")
    ELSE IF \E i \in 1..Len(raw), p \in 1..5 : IsNaN(to_numeric(Cell(raw, i, p)))
    THEN Failure("ValueError", "process")
    ELSE IF \E i \in 1..Len(raw) : ~IsEpochMs(Cell(raw, i, 0))
    THEN Failure("ValueError", "process")
    ELSE Success([i \in 1..Len(raw) |-> CandleOfRow(raw, i)])

(* --------------------------- fetch_candles ----------------------------- *)
(* Variant: an empty list is not taken for an empty response. *)
IsFalsy_nonlist(body) == body.kind \in {"null", "empty_object"}

(* not raw_data or not isinstance(raw_data, list) *)
IsFalsy(body) == body.kind \in {"null", "empty_list", "empty_object"}
IsList(body) == body.kind \in {"empty_list", "rows"}

(* A result of fetch_candles together with the functions it entered, in   *)
(* call order.                                                             *)
Traced(r, entered) ==
    [ok |-> r.ok, candles |-> r.candles, error |-> r.error, msg |-> r.msg,
     calls |-> entered]

fetch_candles(up) ==
    IF up.outcome = "timeout"
    THEN Traced(Failure("RequestException", "timeout"), <<"fetch_candles">>)
    ELSE IF up.outcome = "conn_error"
    THEN Traced(Failure("RequestException", "request"), <<"fetch_candles">>)
    ELSE IF up.status >= 400
    THEN Traced(Failure("RequestException", "request"), <<"fetch_candles">>)
    ELSE IF up.body.kind = "undecodable"
    THEN Traced(Failure(up.json_error,
                        IF up.json_error = "ValueError" THEN "invalid" ELSE "request"),
                <<"fetch_candles">>)
    ELSE IF IsFalsy(up.body) \/ ~IsList(up.body)
    THEN Traced(Failure("ValueError", "invalid"), <<"fetch_candles">>)
    ELSE LET processed == process_candle_data(up.body.rows)
         IN Traced(IF processed.ok THEN processed ELSE Failure("ValueError", "invalid"),
                   <<"fetch_candles", "process_candle_data">>)

(* ------------------- exact arithmetic for detect_trend ----------------- *)
(* Naturals beyond the machine integer are little-endian sequences of      *)
(* limbs in base LimbBase, without leading zero limbs.                     *)
LimbBase == 100 * 100

RECURSIVE ToBig(_)
ToBig(n) == IF n = 0 THEN <<>> ELSE <<n % LimbBase>> \o ToBig(n \div LimbBase)

RECURSIVE BigAdd(_, _, _)
BigAdd(a, b, carry) ==
    IF a = <<>> /\ b = <<>> THEN ToBig(carry)
    ELSE LET x == IF a = <<>> THEN 0 ELSE Head(a)
             y == IF b = <<>> THEN 0 ELSE Head(b)
             t == x + y + carry
         IN <<t % LimbBase>> \o BigAdd(IF a = <<>> THEN a ELSE Tail(a),
                                       IF b = <<>> THEN b ELSE Tail(b),
                                       t \div LimbBase)

RECURSIVE BigMulSmallC(_, _, _)
BigMulSmallC(a, m, carry) ==
    IF a = <<>> THEN ToBig(carry)
    ELSE LET t == Head(a) * m + carry
         IN <<t % LimbBase>> \o BigMulSmallC(Tail(a), m, t \div LimbBase)

(* a * m for 0 <= m <= 100000 *)
BigMulSmall(a, m) == IF m = 0 THEN <<>> ELSE BigMulSmallC(a, m, 0)

RECURSIVE BigMul(_, _)
BigMul(a, b) ==
    IF a = <<>> \/ b = <<>> THEN <<>>
    ELSE LET rest == BigMul(a, Tail(b))
         IN BigAdd(BigMulSmall(a, Head(b)),
                   IF rest = <<>> THEN <<>> ELSE <<0>> \o rest, 0)

RECURSIVE BigCmp(_, _)
BigCmp(a, b) ==
    IF Len(a) # Len(b) THEN Sign(Len(a) - Len(b))
    ELSE IF a = <<>> THEN 0
    ELSE LET i == Len(a)
         IN IF a[i] # b[i] THEN Sign(a[i] - b[i])
            ELSE BigCmp(SubSeq(a, 1, i - 1), SubSeq(b, 1, i - 1))

(* sign of (2k+1)^2 * den - 4 * num, i.e. of (k + 1/2) - sqrt(num/den) *)
HalfCmp(k, num, den) ==
    BigCmp(BigMul(BigMul(ToBig(2 * k + 1), ToBig(2 * k + 1)), den),
           BigMulSmall(num, 4))

RECURSIVE SqrtUpper(_, _, _)
SqrtUpper(k, num, den) ==
    IF HalfCmp(k, num, den) >= 0 THEN k ELSE SqrtUpper(2 * k + 1, num, den)

RECURSIVE SqrtBisect(_, _, _, _)
SqrtBisect(lo, hi, num, den) ==
    IF lo = hi THEN lo
    ELSE LET mid == (lo + hi) \div 2
         IN IF HalfCmp(mid, num, den) >= 0
            THEN SqrtBisect(lo, mid, num, den)
            ELSE SqrtBisect(mid + 1, hi, num, den)

(* round(sqrt(num/den)) to the nearest integer, ties to even *)
RoundSqrt(num, den) ==
    LET k == SqrtBisect(0, SqrtUpper(0, num, den), num, den)
    IN IF HalfCmp(k, num, den) = 0 /\ k % 2 = 1 THEN k + 1 ELSE k

(* round(a / b) to the nearest integer, ties to even; b # 0 *)
RoundDiv(a, b) ==
    LET n == Abs(a)
        d == Abs(b)
        q == n \div d
        r == n % d
        m == IF 2 * r > d THEN q + 1
             ELSE IF 2 * r < d THEN q
             ELSE IF q % 2 = 0 THEN q ELSE q + 1
    IN Sign(a) * Sign(b) * m

RECURSIVE SeqSum(_)
SeqSum(s) == IF s = <<>> THEN 0 ELSE Head(s) + SeqSum(Tail(s))

(* ----------------------------- detect_trend ---------------------------- *)
Absent == [k |-> "absent", v |-> 0]

TrendResult(trend, confidence, message) ==
    [trend |-> trend, confidence |-> confidence, message |-> message,
     price_change |-> Absent, price_change_percent |-> Absent,
     current_price |-> Absent, analysis_periods |-> Absent]

(* candles[start:] with Python's handling of a negative or oversized start *)
SliceFrom(s, start) ==
    LET n == Len(s)
        from == IF start < 0 THEN Max2(n + start, 0) ELSE Min2(start, n)
    IN SubSeq(s, from + 1, n)

(* candles[-periods:] *)
RecentWindow(candles, periods) == SliceFrom(candles, -periods)

(* Variant: every Close is taken for a number. *)
HasClose_any(candle) == candle.Close.k \in {"num", "inf", "nan", "null"}

(* float(candle["Close"]) raises on a value that is not a number *)
HasClose(candle) == candle.Close.k \in {"num", "inf", "nan"}

(* last_close - first_close in IEEE arithmetic *)
FloatSub(a, b) ==
    IF IsNaN(a) \/ IsNaN(b) THEN NaN
    ELSE IF IsFinite(a) /\ IsFinite(b) THEN Num(a.v - b.v)
    ELSE IF IsFinite(b) THEN a
    ELSE IF IsFinite(a) THEN Inf(-b.v)
    ELSE IF a.v = b.v THEN NaN ELSE a

(* round((price_change / first_close) * 100, 4) in units of 1e-4, for a    *)
(* first_close that is not zero                                            *)
PercentE4(change, first) ==
    IF IsNaN(change) \/ IsNaN(first) THEN NaN
    ELSE IF IsFinite(change) /\ IsFinite(first) THEN Num(RoundDiv(1000000 * change.v, first.v))
    ELSE IF IsFinite(first) THEN Inf(change.v * Sign(first.v))
    ELSE IF IsFinite(change) THEN Num(0)
    ELSE NaN

(* n^2 * sum((price - avg_price)^2) for the n closes c, as the code sums   *)
(* the squared deviations from the mean                                    *)
ScaledSquaredDeviations(c) ==
    LET n == Len(c)
        total == SeqSum(c)
    IN SeqSum([i \in 1..n |-> (n * c[i] - total) * (n * c[i] - total)])

(* Variant: the threshold is the whole volatility, not half of it. *)
AboveThreshold_whole(pc, c) ==
    LET n == Len(c)
    IN pc > 0 /\ pc * pc * n * n * n > ScaledSquaredDeviations(c)

(* price_change > volatility * 0.5, for price_change = pc over closes c:   *)
(* volatility^2 = ScaledSquaredDeviations / n^3                            *)
AboveThreshold(pc, c) ==
    LET n == Len(c)
    IN pc > 0 /\ 4 * pc * pc * n * n * n > ScaledSquaredDeviations(c)

(* round(max(30, 70 - (volatility / avg_price * 1000)), 2) in hundredths,  *)
(* for closes c whose sum is not zero                                      *)
SidewaysConfidence(c) ==
    LET n == Len(c)
        total == SeqSum(c)
        dev == ScaledSquaredDeviations(c)
        ratio100 == RoundSqrt(BigMulSmall(BigMulSmall(ToBig(dev), 100000), 100000),
                              ToBig(n * total * total))
    IN IF total > 0
       THEN IF 625 * dev >= n * total * total
            THEN 100 * MinSidewaysConfidence
            ELSE 100 * BaseSidewaysConfidence - ratio100
       ELSE 100 * BaseSidewaysConfidence + ratio100

(* round(min(95, abs(price_change_percent) * 10), 2) in hundredths *)
DirectionConfidence(pc, first) ==
    Min2(100 * MaxUpConfidence, RoundDiv(100000 * Abs(pc), Abs(first)))

Analysis(trend, confidence, closes, periods) ==
    LET first == closes[1]
        last == closes[Len(closes)]
        change == FloatSub(last, first)
    IN [trend |-> trend, confidence |-> confidence, message |-> "none",
        price_change |-> change,
        price_change_percent |-> PercentE4(change, first),
        current_price |-> last,
        analysis_periods |-> Num(periods)]

(* Variant: as many candles as periods is not enough either. *)
NotEnough_inclusive(candles, periods) == Len(candles) <= periods

(* if len(candles) < periods *)
NotEnough(candles, periods) == Len(candles) < periods

(* The result's confidence is in hundredths, price_change_percent in       *)
(* units of 1e-4 (the code rounds them to 2 and 4 decimals); the rounded   *)
(* volatility is not part of the modelled result.                          *)
detect_trend(candles, periods) ==
    IF NotEnough(candles, periods)
    THEN TrendResult("INSUFFICIENT_DATA", 0, "not_enough_data")
    ELSE LET window == RecentWindow(candles, periods)
             closes == [i \in 1..Len(window) |-> window[i].Close]
         IN IF \E i \in 1..Len(window) : ~HasClose(window[i])
            THEN TrendResult("ERROR", 0, "analysis_failed")
            ELSE IF Len(closes) < 2
            THEN TrendResult("SIDEWAYS", 0, "insufficient_data")
            ELSE IF closes[1] = Num(0)
            THEN TrendResult("ERROR", 0, "analysis_failed")
            ELSE IF \E i \in 1..Len(closes) : ~IsFinite(closes[i])
            THEN Analysis("SIDEWAYS", 100 * MinSidewaysConfidence, closes, periods)
            ELSE LET c == [i \in 1..Len(closes) |-> closes[i].v]
                     pc == c[Len(c)] - c[1]
                 IN IF AboveThreshold(pc, c)
                    THEN Analysis("UP", DirectionConfidence(pc, c[1]), closes, periods)
                    ELSE IF AboveThreshold(-pc, c)
                    THEN Analysis("DOWN", DirectionConfidence(pc, c[1]), closes, periods)
                    ELSE IF SeqSum(c) = 0
                    THEN TrendResult("ERROR", 0, "analysis_failed")
                    ELSE Analysis("SIDEWAYS", SidewaysConfidence(c), closes, periods)

(* ------------------------------ inputs --------------------------------- *)
(* Upstream kline rows: positional arrays whose field p is at index p + 1. *)
(* A row built on price q has Open q+1, High q+2, Low q, Close q and       *)
(* Volume q+7, as numeric strings; field p = i (when i > 0) is replaced by *)
(* s, and the fields after index 5 are filled with numbers.                *)
FieldOf(p, t, q, i, s) ==
    IF p = 0 THEN t
    ELSE IF p = i THEN s
    ELSE IF p = 1 THEN NumStr(q + 1)
    ELSE IF p = 2 THEN NumStr(q + 2)
    ELSE IF p = 3 THEN NumStr(q)
    ELSE IF p = 4 THEN NumStr(q)
    ELSE IF p = 5 THEN NumStr(q + 7)
    ELSE Num(p)

MkRow(t, w, q, i, s) == [j \in 1..w |-> FieldOf(j - 1, t, q, i, s)]

OpenTimes == {0, 900000, 66601500}
RowPrices == {0, 100, 101}
OddFields == {Num(-1), Inf(1), Str, Null}
RowWidths == {5, 6, 13}

RowSet ==
    {MkRow(Num(t), NumColumns, q, 0, Null) : t \in OpenTimes, q \in RowPrices}
    \cup {MkRow(Num(0), w, 100, 0, Null) : w \in RowWidths}
    \cup {MkRow(Num(0), NumColumns, 100, i, s) : i \in 1..5, s \in OddFields}
    \cup {MkRow(Str, NumColumns, 100, 0, Null)}

RECURSIVE SeqsUpTo(_, _)
SeqsUpTo(S, n) ==
    IF n = 0 THEN {<<>>}
    ELSE LET shorter == SeqsUpTo(S, n - 1)
         IN shorter \cup {Append(s, x) : s \in {u \in shorter : Len(u) = n - 1}, x \in S}

Payloads == SeqsUpTo(RowSet, MaxRows) \ {<<>>}

Body(kind, rows) == [kind |-> kind, rows |-> rows]

Reply(outcome, status, body, json_error) ==
    [outcome |-> outcome, status |-> status, body |-> body, json_error |-> json_error]

(* What one GET to the klines endpoint can come back with.  json_error is  *)
(* the class response.json() raises on a body that is not JSON: a          *)
(* RequestException subclass in current releases of requests, a plain      *)
(* ValueError in older ones.                                               *)
Upstreams ==
    {Reply(o, 0, Body("none", <<>>), "ValueError") : o \in {"timeout", "conn_error"}}
    \cup {Reply("http", st, Body("object", <<>>), "ValueError") : st \in {404, 500}}
    \cup {Reply("http", 200, Body(kd, <<>>), "ValueError") :
            kd \in {"null", "empty_list", "empty_object", "object", "string"}}
    \cup {Reply("http", 200, Body("undecodable", <<>>), e) :
            e \in {"RequestException", "ValueError"}}
    \cup {Reply("http", 200, Body("rows", rows), "ValueError") : rows \in Payloads}

NoUpstream == Reply("none", 0, Body("none", <<>>), "ValueError")
NotFetched == Traced(Failure("none", "none"), <<>>)
NoResult == TrendResult("NONE", 0, "none")
NoRequest == [endpoint |-> "none", periods |-> 0]

PeriodsIn == {0, 1, 2, 3, 50, 51}

Response(status, detail, candles, trend, analyzed) ==
    [status |-> status, detail |-> detail, count |-> Len(candles),
     candles |-> candles, trend_analysis |-> trend, candles_analyzed |-> analyzed]

(* ------------------------------ handlers ------------------------------- *)
(* Variant: the upper limit is off by one. *)
PeriodsRejected_offbyone(periods) == periods < MinPeriods \/ periods > MaxPeriods + 1

(* if periods < 2 or periods > 50 *)
PeriodsRejected(periods) == periods < MinPeriods \/ periods > MaxPeriods

(* The service keeps no state between requests, so a behaviour is the      *)
(* handling of one request, from the state in which none has arrived.      *)
(* GET /candles *)
get_candles ==
    /\ req = NoRequest
    /\ \E up \in Upstreams :
        LET r == fetch_candles(up)
        IN /\ req' = [endpoint |-> "/candles", periods |-> 0]
           /\ upstream' = up
           /\ fetched' = r
           /\ calls' = r.calls
           /\ resp' = IF r.ok
                      THEN Response(200, "success", r.candles, NoResult, 0)
                      ELSE Response(500, "fetch_failed", <<>>, NoResult, 0)
           /\ UNCHANGED <<tCandles, tPeriods, tResult>>

(* GET /trend?periods=<int> *)
get_trend_analysis ==
    /\ req = NoRequest
    /\ \E periods \in PeriodsIn :
        /\ req' = [endpoint |-> "/trend", periods |-> periods]
        /\ IF PeriodsRejected(periods)
           THEN /\ upstream' = NoUpstream
                /\ fetched' = NotFetched
                /\ calls' = <<>>
                /\ resp' = Response(400, "bad_periods", <<>>, NoResult, 0)
           ELSE \E up \in Upstreams :
                  LET r == fetch_candles(up)
                  IN /\ upstream' = up
                     /\ fetched' = r
                     /\ calls' = r.calls \o
                                 (IF r.ok THEN <<"detect_trend">> ELSE <<>>)
                     /\ resp' = IF r.ok
                                THEN Response(200, "success", <<>>,
                                              detect_trend(r.candles, periods),
                                              Min2(Len(r.candles), periods))
                                ELSE Response(500, "analysis_failed", <<>>, NoResult, 0)
        /\ UNCHANGED <<tCandles, tPeriods, tResult>>

Init ==
    /\ req = NoRequest
    /\ upstream = NoUpstream
    /\ fetched = NotFetched
    /\ calls = <<>>
    /\ resp = Response(0, "none", <<>>, NoResult, 0)
    /\ tCandles = <<>>
    /\ tPeriods = 0
    /\ tResult = NoResult

Next == get_candles \/ get_trend_analysis

Spec == Init /\ [][Next]_vars

(* ------------------- detect_trend called on its own -------------------- *)
CandleWithClose(c) ==
    [Open_time |-> FormatOpenTime(0), Open |-> c, High |-> c, Low |-> c,
     Close |-> c, Volume |-> Num(1)]

CloseValues ==
    {Num(-1), Num(0), Num(1), Num(2), Num(100), Num(101), Num(110), Inf(1), Null}

CandleSeqs == SeqsUpTo({CandleWithClose(c) : c \in CloseValues}, MaxCandles)

TrendPeriods == (-2)..(MaxCandles + 1)

InitTrend ==
    /\ req = NoRequest
    /\ upstream = NoUpstream
    /\ fetched = NotFetched
    /\ calls = <<>>
    /\ resp = Response(0, "none", <<>>, NoResult, 0)
    /\ tCandles \in CandleSeqs
    /\ tPeriods \in TrendPeriods
    /\ tResult = NoResult

call_detect_trend ==
    /\ tResult = NoResult
    /\ tResult' = detect_trend(tCandles, tPeriods)
    /\ UNCHANGED <<req, upstream, fetched, calls, resp, tCandles, tPeriods>>

NextTrend == call_detect_trend

SpecTrend == InitTrend /\ [][NextTrend]_vars

(* ======================= properties of the fetch ======================= *)
Handled == req # NoRequest
GotRows == Handled /\ upstream.outcome = "http" /\ upstream.status < 400
           /\ upstream.body.kind = "rows"
Rows == upstream.body.rows
NumericFields == 1..5

(* field p of row i is present and is a number or a string holding one *)
Parses(rows, i, p) ==
    /\ p + 1 <= Len(rows[i])
    /\ rows[i][p + 1].k \in {"num", "numstr", "inf"}

(* field p of row i is present and is not a number *)
Unparsable(rows, i, p) ==
    /\ p + 1 <= Len(rows[i])
    /\ rows[i][p + 1].k \in {"str", "null"}

(* the float a parsable field stands for *)
FloatOf(f) == IF f.k = "inf" THEN Inf(f.v) ELSE Num(f.v)

NumericOf(candle) ==
    <<candle.Open, candle.High, candle.Low, candle.Close, candle.Volume>>

WallSeconds(t) == t.day * 86400 + t.hh * 3600 + t.mm * 60 + t.ss

(* C1: a payload in which some numeric field of some row does not parse    *)
(* as a number makes the whole fetch fail with an error and return no      *)
(* candle, whatever the other rows hold and wherever the bad row stands.   *)
C1_NoPartialCandleList ==
    (GotRows /\ \E i \in 1..Len(Rows), p \in NumericFields : Unparsable(Rows, i, p))
    => /\ ~fetched.ok
       /\ fetched.candles = <<>>
       /\ fetched.error = "ValueError"
       /\ resp.candles = <<>>
       /\ resp.status = 500

(* a valid first row followed by a row with a bad numeric field *)
C1_Witness ==
    /\ GotRows
    /\ Len(Rows) = 2
    /\ Len(Rows[1]) = NumColumns
    /\ \A p \in NumericFields : Parses(Rows, 1, p)
    /\ \E p \in NumericFields : Unparsable(Rows, 2, p)
    /\ ~fetched.ok

WellFormed(rows) ==
    \A i \in 1..Len(rows) :
        Len(rows[i]) >= 6 /\ \A p \in NumericFields : Parses(rows, i, p)

BuiltFromRow(candle, row) ==
    /\ NumericOf(candle) = [p \in NumericFields |-> FloatOf(row[p + 1])]
    /\ WallSeconds(candle.Open_time) = (row[1].v + TZOffsetMs) \div 1000

RecordPerRow ==
    /\ fetched.ok
    /\ Len(fetched.candles) = Len(Rows)
    /\ \A i \in 1..Len(Rows) : BuiltFromRow(fetched.candles[i], Rows[i])

(* C2 as stated: every payload whose rows have at least 6 fields with      *)
(* parsable fields 1..5 yields one record per row, in order, from fields   *)
(* 0..5.                                                                   *)
C2_Original == (GotRows /\ WellFormed(Rows)) => RecordPerRow

(* C2 amended: a payload whose rows have at least 6 fields with parsable   *)
(* fields 1..5 and an integer millisecond timestamp in field 0, and whose  *)
(* longest row has exactly 12 fields, yields one record per row, in the    *)
(* upstream order, the i-th built from fields 0..5 of the i-th row.        *)
C2_RecordPerRowOfTwelveColumns ==
    (/\ GotRows
     /\ WellFormed(Rows)
     /\ \A i \in 1..Len(Rows) : Len(Rows[i]) <= NumColumns /\ Rows[i][1].k = "num"
     /\ \E i \in 1..Len(Rows) : Len(Rows[i]) = NumColumns)
    => RecordPerRow

(* two rows of different prices, one of them 6 fields long *)
C2_Witness ==
    /\ GotRows
    /\ Len(Rows) = 2
    /\ Len(Rows[1]) = 6
    /\ Len(Rows[2]) = NumColumns
    /\ fetched.ok
    /\ Len(fetched.candles) = 2
    /\ fetched.candles[1].Close # fetched.candles[2].Close

(* C3 as stated: every returned candle has finite, non-negative open,     *)
(* high, low, close and volume.                                            *)
C3_Original ==
    (Handled /\ fetched.ok)
    => \A i \in 1..Len(fetched.candles), p \in NumericFields :
          LET x == NumericOf(fetched.candles[i])[p]
          IN x.k = "num" /\ x.v >= 0

(* C3 amended: every returned candle has open, high, low, close and volume *)
(* that are numbers (never NaN) and equal the upstream values, which may   *)
(* be negative or infinite.                                                *)
C3_ReturnedFieldsAreNotNaN ==
    (GotRows /\ fetched.ok)
    => \A i \in 1..Len(fetched.candles), p \in NumericFields :
          /\ NumericOf(fetched.candles[i])[p].k \in {"num", "inf"}
          /\ Parses(Rows, i, p)
          /\ NumericOf(fetched.candles[i])[p] = FloatOf(Rows[i][p + 1])

(* a returned candle with a negative field *)
C3_Witness ==
    /\ GotRows
    /\ fetched.ok
    /\ \E i \in 1..Len(fetched.candles), p \in NumericFields :
          NumericOf(fetched.candles[i])[p] = Num(-1)

(* C4 as stated: the open_time of a returned candle is the UTC instant of  *)
(* the upstream millisecond timestamp, with no display offset.             *)
C4_Original ==
    (GotRows /\ fetched.ok)
    => \A i \in 1..Len(fetched.candles) :
          WallSeconds(fetched.candles[i].Open_time) = Rows[i][1].v \div 1000

(* C4 amended: the open_time of a returned candle is the wall clock of the *)
(* upstream millisecond timestamp shifted by +5:30, cut to whole seconds   *)
(* and labelled LKT.                                                       *)
C4_OpenTimeIsShiftedToLKT ==
    (GotRows /\ fetched.ok)
    => \A i \in 1..Len(fetched.candles) :
          LET t == fetched.candles[i].Open_time
          IN /\ WallSeconds(t) * 1000 <= Rows[i][1].v + TZOffsetMs
             /\ Rows[i][1].v + TZOffsetMs < (WallSeconds(t) + 1) * 1000
             /\ t.hh \in 0..23 /\ t.mm \in 0..59 /\ t.ss \in 0..59
             /\ t.zone = "LKT"

(* 18:30:01.5 UTC on day 0 is returned as 00:00:01 on day 1 *)
C4_Witness ==
    /\ GotRows
    /\ fetched.ok
    /\ \E i \in 1..Len(fetched.candles) :
          /\ Rows[i][1].v = 66601500
          /\ fetched.candles[i].Open_time =
                [day |-> 1, hh |-> 0, mm |-> 0, ss |-> 1, zone |-> "LKT"]

NotAnArrayOfRows ==
    /\ Handled
    /\ upstream.outcome = "http"
    /\ upstream.status < 400
    /\ upstream.body.kind \in
          {"null", "empty_list", "empty_object", "object", "string", "undecodable"}

C8_PeriodsCheckedBeforeFetch ==
    (Handled /\ req.endpoint = "/trend")
    => /\ (req.periods < 2 \/ req.periods > 50)
            => resp.status \in 400..499 /\ calls = <<>>
       /\ (req.periods >= 2 /\ req.periods <= 50)
            => /\ calls # <<>>
               /\ calls[1] = "fetch_candles"
               /\ resp.status \notin 400..499
               /\ resp.status = 200 <=> calls[Len(calls)] = "detect_trend"
               /\ \A i \in 1..Len(calls) :
                     calls[i] = "detect_trend"
                     => \E j \in 1..(i - 1) : calls[j] = "fetch_candles"

(* periods = 51 is turned away *)
C8_Witness ==
    /\ req = [endpoint |-> "/trend", periods |-> 51]
    /\ resp.status = 400
    /\ calls = <<>>

(* ==================== properties of detect_trend ====================== *)
Called == tResult # NoResult

(* the closes of the last periods candles, for 1 <= periods <= Len(candles) *)
TrailingCloses(candles, periods) ==
    [i \in 1..periods |-> candles[Len(candles) - periods + i].Close]

HasWindow == tPeriods >= 1 /\ tPeriods <= Len(tCandles)
Closes == TrailingCloses(tCandles, tPeriods)
AllFinite(cs) == \A i \in 1..Len(cs) : cs[i].k = "num"

RECURSIVE SumOf(_, _)
SumOf(cs, i) == IF i = 0 THEN 0 ELSE cs[i].v + SumOf(cs, i - 1)

RECURSIVE SumOfSquares(_, _)
SumOfSquares(cs, i) == IF i = 0 THEN 0 ELSE cs[i].v * cs[i].v + SumOfSquares(cs, i - 1)

(* n^2 times the population variance: n * sum(x^2) - (sum x)^2 *)
ScaledVariance(cs) ==
    Len(cs) * SumOfSquares(cs, Len(cs)) - SumOf(cs, Len(cs)) * SumOf(cs, Len(cs))

PriceChange(cs) == cs[Len(cs)].v - cs[1].v

(* change > sqrt(variance) / 2 *)
ExceedsHalfDeviation(change, cs) ==
    change > 0 /\ 4 * Len(cs) * Len(cs) * change * change > ScaledVariance(cs)

(* k is an integer nearest to sqrt(num / den) *)
Nearest(k, num, den) ==
    /\ k >= 0
    /\ HalfCmp(k, num, den) >= 0
    /\ k = 0 \/ HalfCmp(k - 1, num, den) <= 0

(* C6: detect_trend always returns one of the five trends, and every       *)
(* failure of the computation (a first close of 0, a mean of 0 where it is *)
(* divided by, a close that is not a number) gives ERROR with confidence 0 *)
(* and a message.                                                          *)
C6_FailuresBecomeError ==
    Called
    => /\ tResult.trend \in {"UP", "DOWN", "SIDEWAYS", "INSUFFICIENT_DATA", "ERROR"}
       /\ tResult.trend = "ERROR"
            => tResult.confidence = 0 /\ tResult.message = "analysis_failed"
       /\ (HasWindow /\ \E i \in 1..tPeriods : Closes[i].k = "null")
            => tResult.trend = "ERROR"
       /\ (HasWindow /\ tPeriods >= 2 /\ Closes[1] = Num(0)
           /\ \A i \in 1..tPeriods : Closes[i].k # "null")
            => tResult.trend = "ERROR"
       /\ (HasWindow /\ tPeriods >= 2 /\ AllFinite(Closes)
           /\ SumOf(Closes, tPeriods) = 0
           /\ ~ExceedsHalfDeviation(PriceChange(Closes), Closes)
           /\ ~ExceedsHalfDeviation(-PriceChange(Closes), Closes))
            => tResult.trend = "ERROR"

(* closes -1, 2, -1: the mean is 0 and the change is 0 *)
C6_Witness ==
    /\ Called
    /\ tPeriods = 3
    /\ Len(tCandles) = 3
    /\ Closes = <<Num(-1), Num(2), Num(-1)>>
    /\ tResult.trend = "ERROR"
    /\ tResult.confidence = 0

(* C7: detect_trend returns INSUFFICIENT_DATA, with confidence 0, exactly  *)
(* when there are fewer candles than periods.                              *)
C7_InsufficientDataIffTooFew ==
    Called
    => /\ tResult.trend = "INSUFFICIENT_DATA" <=> Len(tCandles) < tPeriods
       /\ tResult.trend = "INSUFFICIENT_DATA"
            => tResult.confidence = 0 /\ tResult.message = "not_enough_data"

C7_Witness ==
    /\ Called
    /\ Len(tCandles) = 2
    /\ tPeriods = 3
    /\ tResult.trend = "INSUFFICIENT_DATA"

DirectionConfidenceIs(conf, change, first) ==
    LET exact == 100000 * Abs(change)
        d == Abs(first)
    IN /\ conf >= 0 /\ conf <= 9500
       /\ conf < 9500 => 2 * Abs(conf * d - exact) <= d
       /\ conf = 9500 => 2 * exact >= (2 * 9500 - 1) * d

SidewaysConfidenceIs(conf, cs) ==
    LET total == SumOf(cs, Len(cs))
        num == BigMulSmall(BigMulSmall(ToBig(ScaledVariance(cs)), 100000), 100000)
        den == ToBig(total * total)
    IN IF total > 0
       THEN /\ conf >= 3000 /\ conf <= 7000
            /\ conf > 3000 => Nearest(7000 - conf, num, den)
            /\ conf = 3000 => HalfCmp(3999, num, den) <= 0
       ELSE /\ conf >= 7000
            /\ Nearest(conf - 7000, num, den)

(* C9: over a window of at least 2 closes with a first close and a mean    *)
(* that are not 0, the trend is UP exactly when the price change exceeds   *)
(* half the population standard deviation, DOWN exactly when it is below   *)
(* minus that, SIDEWAYS otherwise; the confidence (in hundredths, rounded  *)
(* to 2 decimals) is min(95, |percent change| * 10) for UP and DOWN and    *)
(* max(30, 70 - deviation / mean * 1000) for SIDEWAYS, 70 on a flat series.*)
C9_TrendClassification ==
    (/\ Called
     /\ HasWindow
     /\ tPeriods >= 2
     /\ AllFinite(Closes)
     /\ Closes[1].v # 0
     /\ SumOf(Closes, tPeriods) # 0)
    => LET change == PriceChange(Closes)
           up == ExceedsHalfDeviation(change, Closes)
           down == ExceedsHalfDeviation(-change, Closes)
       IN /\ tResult.trend \in {"UP", "DOWN", "SIDEWAYS"}
          /\ tResult.trend = "UP" <=> up
          /\ tResult.trend = "DOWN" <=> down
          /\ tResult.trend \in {"UP", "DOWN"}
               => DirectionConfidenceIs(tResult.confidence, change, Closes[1].v)
          /\ tResult.trend = "SIDEWAYS"
               => SidewaysConfidenceIs(tResult.confidence, Closes)
          /\ (\A i \in 1..tPeriods : Closes[i] = Closes[1])
               => tResult.trend = "SIDEWAYS" /\ tResult.confidence = 7000

(* closes 100, 101, 100: SIDEWAYS with confidence 65.30 *)
C9_Witness ==
    /\ Called
    /\ tPeriods = 3
    /\ Len(tCandles) = 3
    /\ Closes = <<Num(100), Num(101), Num(100)>>
    /\ tResult.trend = "SIDEWAYS"
    /\ tResult.confidence = 6530

(* C10: with at least periods candles the window is the last periods       *)
(* closes, so that whenever periods < 2 the result is SIDEWAYS with        *)
(* confidence 0 (stated over candles whose closes are positive numbers).   *)
C10_ShortWindowIsSideways ==
    (/\ Called
     /\ Len(tCandles) >= tPeriods
     /\ \A i \in 1..Len(tCandles) :
           tCandles[i].Close.k = "num" /\ tCandles[i].Close.v > 0
     /\ tPeriods < 2)
    => tResult.trend = "SIDEWAYS" /\ tResult.confidence = 0

====
